---- MODULE Spec2Model ----
(***************************************************************************)
(* Model of gram's parameter sweep driver (gram/sweep/sweep.py) and of the *)
(* per-sample job script (gram/execution/run_simulation.py).               *)
(*                                                                         *)
(* The program is single-threaded: one call runs at a time.  `build` is    *)
(* modelled step by step (entry, one loop iteration per step, the code     *)
(* after the loop) because several properties speak about the states       *)
(* inside its loop; every other operation is one atomic action.            *)
(*                                                                         *)
(* Paths are sequences of components; a path starting with "/" is          *)
(* absolute and one starting with "." is relative to the working           *)
(* directory.  Numbers in parameter vectors are log10 values in tenths     *)
(* (-45 stands for -4.5), so base, delta and the box bounds are integers.  *)
(***************************************************************************)
EXTENDS Integers, Sequences, FiniteSets, TLC

VARIABLES
    clock,      \* time(): the wall clock, in half seconds
    dirs,       \* file system: the set of existing directories (absolute)
    files,      \* file system: absolute path -> content of a regular file
    cases,      \* simulation directory (absolute) -> persisted simulation case
    corrupted,  \* state files damaged after they were written: path -> kind
    sweep,      \* the Sweep object: [cls, dict], dict = its __dict__
    pc,         \* the call in progress ([op |-> "idle"] when none)
    ret,        \* outcome of the last finished call
    ncalls      \* number of calls started so far

vars == <<clock, dirs, files, cases, corrupted, sweep, pc, ret, ncalls>>

\* ------------------------------------------------------------------ bounds

MaxN == 2
MaxTime == 2
MaxCalls == 2
MaxVal == 1

\* ------------------------------------------------------------- inputs

Classes == {"LinearSweep", "HillSweep", "TwoStateSweep"}
cwd == <<"/", "home">>
Dirpaths == {<<".">>, <<"/", "missing">>}
KwargsChoices == {<< <<"conditions", "normal">> >>}
Idx == 1..9

\* ------------------------------------------------------------- os.path

join(p, n) == p \o <<n>>

abspath(p) == IF p[1] = "/" THEN p ELSE cwd \o Tail(p)

parent(p) == SubSeq(p, 1, Len(p) - 1)

isdir(D, p) == abspath(p) \in D

\* os.mkdir: the error it raises on directory set D, "none" when it succeeds
mkdir_err(D, p) ==
    IF abspath(p) \in D THEN "FileExistsError"
    ELSE IF parent(abspath(p)) \notin D THEN "FileNotFoundError"
    ELSE "none"

mkdir(D, p) == D \cup {abspath(p)}

\* ------------------------------------------------------------- objects

HasAttr(d, k) == k \in DOMAIN d

SetAttr(d, k, v) == [a \in DOMAIN d \cup {k} |-> IF a = k THEN v ELSE d[a]]

\* dict item assignment d[k] = v; keys keep their insertion order, which for
\* the keys build inserts (0, 1, 2, ...) is ascending order
SetItem(d, k, v) == [a \in DOMAIN d \cup {k} |-> IF a = k THEN v ELSE d[a]]

EmptyDict == << >>

\* ------------------------------------------------------------- pickle

AttrOrder ==
    <<"base", "delta", "sampler", "path", "scripts_path", "simulations_path",
      "parameters", "simulation_kwargs", "simulation_paths">>

\* pickle.dump(obj) of the object as it was before the loop filled
\* simulation_paths (the dump moved above the loop)
dumps_before_loop(obj) ==
    LET stale == [obj EXCEPT !.dict =
                     IF HasAttr(@, "simulation_paths")
                     THEN SetAttr(@, "simulation_paths", EmptyDict) ELSE @]
        Present(k) == HasAttr(stale.dict, k)
        keys == SelectSeq(AttrOrder, Present)
    IN  << <<"class", stale.cls>> >>
        \o [i \in 1..Len(keys) |-> <<keys[i], stale.dict[keys[i]]>>]
        \o << <<"STOP">> >>

\* pickle.dump(obj): the class reference, the attributes of __dict__ as
\* (name, value) items, and the closing STOP opcode
dumps(obj) ==
    LET Present(k) == HasAttr(obj.dict, k)
        keys == SelectSeq(AttrOrder, Present)
    IN  << <<"class", obj.cls>> >>
        \o [i \in 1..Len(keys) |-> <<keys[i], obj.dict[keys[i]]>>]
        \o << <<"STOP">> >>

\* the error pickle.load raises on stream s, "none" when s parses
loads_err(s) ==
    IF Len(s) = 0 THEN "EOFError"
    ELSE IF s[Len(s)] # <<"STOP">> THEN "UnpicklingError"
    ELSE "none"

loads(s) ==
    LET items == 2..(Len(s) - 1)
    IN  [cls  |-> s[1][2],
         dict |-> [k \in {s[i][1] : i \in items} |->
                     s[CHOOSE i \in items : s[i][1] = k][2]]]

\* ------------------------------------------------------------- sampler

\* LogSampler(low, high)
LogSampler(low, high) == [low |-> low, high |-> high]

\* LogSampler.sample(N): N vectors inside the box, in a fixed order
sample(sampler, N) ==
    [k \in 1..N |->
        [i \in Idx |-> sampler.low[i]
                       + ((k - 1) * (sampler.high[i] - sampler.low[i])) \div N]]

\* ------------------------------------------------------------- Sweep.__init__

DefaultBase(cls) ==
    CASE cls = "LinearSweep"   -> <<0, 0, 0, 0, -20, -30, -45, -45, -45>>
      [] cls = "HillSweep"     -> <<0, 0, 0, -20, -30, -40, 0, -50, -40>>
      [] cls = "TwoStateSweep" -> <<0, 0, 0, -10, -20, -30, -40, -45, -40>>

\* Sweep.__init__(base, delta) through the subclass constructor with base=None
new_sweep(cls, delta) ==
    LET base == DefaultBase(cls)
    IN  [cls  |-> cls,
         dict |-> [base    |-> base,
                   delta   |-> delta,
                   sampler |-> LogSampler([i \in Idx |-> base[i] - delta],
                                          [i \in Idx |-> base[i] + delta])]]

\* ------------------------------------------------------------- build_model

\* the constructor call and the add_feedback calls build_model makes
add_feedback(model, args, perturbed) ==
    [model EXCEPT !.feedback = Append(@, [args |-> args, perturbed |-> perturbed])]

LinearSweep_build_model(parameters) ==
    LET k0 == parameters[1]  k1 == parameters[2]  k2 == parameters[3]
        g0 == parameters[4]  g1 == parameters[5]  g2 == parameters[6]
        eta0 == parameters[7]  eta1 == parameters[8]  eta2 == parameters[9]
        model == [kind |-> "LinearModel",
                  args |-> <<k0, k1, k2, g0, g1, g2>>,
                  feedback |-> << >>]
        m1 == add_feedback(model, <<eta0, eta1, eta2>>, FALSE)
    IN  add_feedback(m1, <<eta0, eta1, eta2>>, TRUE)

\* HillSweep.build_model with the two feedback strengths exchanged in the
\* perturbed condition
HillSweep_build_model_swapped(parameters) ==
    LET n == parameters[1]   k1 == parameters[2]  k2 == parameters[3]
        g1 == parameters[4]  g2 == parameters[5]  k_m == parameters[6]
        r_n == parameters[7]  eta1 == parameters[8]  eta2 == parameters[9]
        model == [kind |-> "HillModel",
                  args |-> <<k1, "0.5", n, k2, g1, g2>>,
                  feedback |-> << >>]
        m1 == add_feedback(model, <<k_m, r_n, eta1, eta2>>, FALSE)
    IN  add_feedback(m1, <<k_m, r_n, eta2, eta1>>, TRUE)

\* HillModel(k1=k1, k_m=.5, n=n, k2=k2, g1=g1, g2=g2): the literal .5 is the
\* token "0.5"
HillSweep_build_model(parameters) ==
    LET n == parameters[1]   k1 == parameters[2]  k2 == parameters[3]
        g1 == parameters[4]  g2 == parameters[5]  k_m == parameters[6]
        r_n == parameters[7]  eta1 == parameters[8]  eta2 == parameters[9]
        model == [kind |-> "HillModel",
                  args |-> <<k1, "0.5", n, k2, g1, g2>>,
                  feedback |-> << >>]
        m1 == add_feedback(model, <<k_m, r_n, eta1, eta2>>, FALSE)
    IN  add_feedback(m1, <<k_m, r_n, eta1, eta2>>, TRUE)

TwoStateSweep_build_model(parameters) ==
    LET k0 == parameters[1]  k1 == parameters[2]  k2 == parameters[3]
        g0 == parameters[4]  g1 == parameters[5]  g2 == parameters[6]
        eta0 == parameters[7]  eta1 == parameters[8]  eta2 == parameters[9]
        model == [kind |-> "TwoStateModel",
                  args |-> <<k0, k1, k2, g0, g1, g2>>,
                  feedback |-> << >>]
        m1 == add_feedback(model, <<eta0, eta1, eta2>>, FALSE)
    IN  add_feedback(m1, <<eta0, eta1, eta2>>, TRUE)

\* cls.build_model(parameters): dispatch on the concrete class
build_model(cls, parameters) ==
    CASE cls = "LinearSweep"   -> LinearSweep_build_model(parameters)
      [] cls = "HillSweep"     -> HillSweep_build_model(parameters)
      [] cls = "TwoStateSweep" -> TwoStateSweep_build_model(parameters)

\* ------------------------------------------------------------- files

Put(F, p, c) == [q \in DOMAIN F \cup {p} |-> IF q = p THEN c ELSE F[q]]

NoPath == << >>

\* the directory of gram/sweep/sweep.py, where build_submission_script looks
\* for run.py; `installed` says whether the file is there
PackageDir == <<"/", "pkg", "gram", "sweep">>

BaseDirs == {<<"/">>, cwd, <<"/", "tmp">>, <<"/", "pkg">>,
             <<"/", "pkg", "gram">>, PackageDir}

\* ------------------------------------------------------------- initialize

\* datetime.fromtimestamp(time()).strftime('%y%m%d_%H%M%S'): the time cut to
\* whole seconds (the clock counts half seconds)
strftime(t) == ToString(t \div 2)

sweep_name(cls, t) == cls \o "_" \o strftime(t)

\* initialize creating the sweep directory unconditionally, so that an
\* existing one is refused by mkdir
initialize_result_strict(obj, dirpath, t, D) ==
    LET name == sweep_name(obj.cls, t)
        path == join(dirpath, name)
        existed == isdir(D, path)
        e0 == mkdir_err(D, path)
        D1 == mkdir(D, path)
        scripts_path == join(path, "scripts")
        simulations_path == join(path, "simulations")
        obj1 == [obj EXCEPT !.dict =
                    SetAttr(SetAttr(SetAttr(@, "path", path),
                                    "scripts_path", scripts_path),
                            "simulations_path", simulations_path)]
        out(e, o, DD) == [err |-> e, obj |-> o, dirs |-> DD,
                          target |-> path, existed |-> existed]
    IN  IF e0 # "none" THEN out(e0, obj, D)
        ELSE out("none", obj1, mkdir(mkdir(D1, scripts_path), simulations_path))

\* Sweep.initialize(dirpath) at time t on directories D: the error it raises
\* ("none" when it returns), the object and the directories it leaves;
\* target is the path of line 81 and existed the isdir of line 82
initialize_result(obj, dirpath, t, D) ==
    LET name == sweep_name(obj.cls, t)
        path == join(dirpath, name)
        existed == isdir(D, path)
        e0 == IF existed THEN "none" ELSE mkdir_err(D, path)
        D1 == IF existed THEN D ELSE mkdir(D, path)
        scripts_path == join(path, "scripts")
        simulations_path == join(path, "simulations")
        obj1 == [obj EXCEPT !.dict =
                    SetAttr(SetAttr(SetAttr(@, "path", path),
                                    "scripts_path", scripts_path),
                            "simulations_path", simulations_path)]
        e1 == mkdir_err(D1, scripts_path)
        D2 == mkdir(D1, scripts_path)
        e2 == mkdir_err(D2, simulations_path)
        D3 == mkdir(D2, simulations_path)
        out(e, o, DD) == [err |-> e, obj |-> o, dirs |-> DD,
                          target |-> path, existed |-> existed]
    IN  IF e0 # "none" THEN out(e0, obj, D)
        ELSE IF e1 # "none" THEN out(e1, obj1, D1)
        ELSE IF e2 # "none" THEN out(e2, obj1, D2)
        ELSE out("none", obj1, D3)

\* ------------------------------------------------------------- build_simulation

Outcomes == {"ok", "build_model raises", "save raises"}

\* ConditionSimulation(model, **kwargs)
ConditionSimulation(model, kwargs) == [model |-> model, kwargs |-> kwargs]

\* build_simulation with the failure of a sample caught and skipped
build_simulation_skipping(cls, parameters, simulation_path, kwargs, outcome, D, C) ==
    LET model == build_model(cls, parameters)
        simulation == ConditionSimulation(model, kwargs)
    IN  IF outcome = "ok"
        THEN [err |-> "none", dirs |-> mkdir(D, simulation_path),
              cases |-> Put(C, abspath(simulation_path), simulation)]
        ELSE [err |-> "none", dirs |-> D, cases |-> C]

\* cls.build_simulation(parameters, simulation_path, **kwargs); outcome says
\* whether the model constructor or simulation.save raises
build_simulation(cls, parameters, simulation_path, kwargs, outcome, D, C) ==
    LET model == build_model(cls, parameters)
        simulation == ConditionSimulation(model, kwargs)
        e1 == IF isdir(D, simulation_path) THEN "none"
              ELSE mkdir_err(D, simulation_path)
        D1 == mkdir(D, simulation_path)
    IN  IF outcome = "build_model raises"
        THEN [err |-> "ModelBuildError", dirs |-> D, cases |-> C]
        ELSE IF e1 # "none" THEN [err |-> e1, dirs |-> D, cases |-> C]
        ELSE IF outcome = "save raises"
        THEN [err |-> "SaveError", dirs |-> D1, cases |-> C]
        ELSE [err |-> "none", dirs |-> D1,
              cases |-> Put(C, abspath(simulation_path), simulation)]

\* ------------------------------------------------------------- write_paths_file

\* Sweep.write_paths_file(): paths.txt is opened for writing (created or
\* truncated), then the loop header reads the global name `sweep`, which the
\* module never binds
write_paths_file_result(obj, F, D) ==
    IF ~HasAttr(obj.dict, "scripts_path")
    THEN [err |-> "AttributeError", files |-> F]
    ELSE IF ~isdir(D, obj.dict.scripts_path)
    THEN [err |-> "FileNotFoundError", files |-> F]
    ELSE [err |-> "NameError",
          files |-> Put(F, abspath(join(obj.dict.scripts_path, "paths.txt")), << >>)]

\* ------------------------------------------------------------- build_submission_script

\* the text written to job_submission.sh, by the slots the template fills:
\* the input redirection of the outer loop, the cd of the inner job and the
\* command it runs
job_script(sweep_path) ==
    [reads_from |-> <<"/", "scripts", "paths.txt">>,
     cd         |-> sweep_path,
     command    |-> <<"python", "scripts/run.py", "$\\{PATH}">>,
     mode       |-> "0o755"]

build_submission_script_result(obj, F, D, installed) ==
    IF ~HasAttr(obj.dict, "path")
    THEN [err |-> "AttributeError", files |-> F]
    ELSE
    LET sweep_path == abspath(obj.dict.path)
        job_path == join(join(sweep_path, "scripts"), "job_submission.sh")
        run_path == join(PackageDir, "run.py")
        scripts == join(obj.dict.path, "scripts")
        dst == IF isdir(D, scripts) THEN abspath(join(scripts, "run.py"))
               ELSE abspath(scripts)
        F1 == Put(F, dst, "run.py")
    IN  IF ~installed
        THEN [err |-> "FileNotFoundError", files |-> F]
        ELSE IF ~isdir(D, parent(dst))
        THEN [err |-> "FileNotFoundError", files |-> F]
        ELSE IF ~isdir(D, parent(job_path))
        THEN [err |-> "NotADirectoryError", files |-> F1]
        ELSE [err |-> "none", files |-> Put(F1, job_path, job_script(sweep_path))]

\* ------------------------------------------------------------- N, load

\* the N property
N_result(obj) ==
    IF HasAttr(obj.dict, "samples")
    THEN [err |-> "none", val |-> Len(obj.dict.samples)]
    ELSE [err |-> "AttributeError"]

\* load reporting every failure as a missing file
load_result_not_found(path, F) ==
    LET f == abspath(join(path, "sweep.pkl"))
    IN  IF f \notin DOMAIN F \/ loads_err(F[f]) # "none"
        THEN [err |-> "FileNotFoundError"]
        ELSE [err |-> "none", val |-> loads(F[f])]

\* Sweep.load(path)
load_result(path, F) ==
    LET f == abspath(join(path, "sweep.pkl"))
    IN  IF f \notin DOMAIN F THEN [err |-> "FileNotFoundError"]
        ELSE IF loads_err(F[f]) # "none" THEN [err |-> loads_err(F[f])]
        ELSE [err |-> "none", val |-> loads(F[f])]

\* ------------------------------------------------------------- run_simulation.py

\* the job script run with args['path'] = [p]: load, run, then the save of
\* line 24, which names the unbound global `path`
run_simulation_result(p, C) ==
    IF abspath(p) \notin DOMAIN C
    THEN [err |-> "FileNotFoundError", loaded_from |-> NoPath, ran |-> FALSE,
          saved_to |-> NoPath]
    ELSE [err |-> "NameError", loaded_from |-> p, ran |-> TRUE,
          saved_to |-> NoPath]

\* ------------------------------------------------------------- state

Idle == [op |-> "idle"]

StateFile(root) == abspath(join(root, "sweep.pkl"))

\* the file system before the program runs: possibly a directory that already
\* carries the name the sweep of class cls gets in the first second
PreExisting(cls) == {{}, {abspath(join(<<".">>, sweep_name(cls, 0)))}}

Init ==
    /\ clock = 0
    /\ \E cls \in Classes :
          /\ sweep = new_sweep(cls, 5)
          /\ \E pre \in PreExisting(cls) : dirs = BaseDirs \cup pre
    /\ files = << >>
    /\ cases = << >>
    /\ corrupted = << >>
    /\ pc = Idle
    /\ ret = [op |-> "none"]
    /\ ncalls = 0

\* ------------------------------------------------------------- actions

\* time passes; build reads the clock only on entry, so a tick during a build
\* is a tick after it
Tick ==
    /\ pc.op = "idle"
    /\ clock < MaxTime
    /\ clock' = clock + 1
    /\ UNCHANGED <<dirs, files, cases, corrupted, sweep, pc, ret, ncalls>>

\* sweep.initialize(dirpath)
initialize(dirpath) ==
    /\ pc.op = "idle"
    /\ ncalls < MaxCalls
    /\ LET r == initialize_result(sweep, dirpath, clock, dirs)
       IN  /\ sweep' = r.obj
           /\ dirs' = r.dirs
           /\ ret' = [op |-> "initialize", err |-> r.err,
                      target |-> r.target, existed |-> r.existed]
    /\ ncalls' = ncalls + 1
    /\ UNCHANGED <<clock, files, cases, corrupted, pc>>

\* sweep.build(dirpath, N, **kwargs), lines 106-112: initialize, draw the
\* samples, reset the path mapping
build_enter(dirpath, N, kwargs) ==
    /\ pc.op = "idle"
    /\ ncalls < MaxCalls
    /\ LET r == initialize_result(sweep, dirpath, clock, dirs)
       IN  /\ dirs' = r.dirs
           /\ IF r.err # "none"
              THEN /\ sweep' = r.obj
                   /\ pc' = pc
                   /\ ret' = [op |-> "build", err |-> r.err,
                              target |-> r.target, existed |-> r.existed,
                              N |-> N, kwargs |-> kwargs, built |-> 0,
                              calls |-> << >>]
              ELSE /\ sweep' = [r.obj EXCEPT !.dict =
                          SetAttr(SetAttr(SetAttr(@,
                              "parameters", sample(r.obj.dict.sampler, N)),
                              "simulation_kwargs", kwargs),
                              "simulation_paths", EmptyDict)]
                   /\ pc' = [op |-> "build", i |-> 0,
                             target |-> r.target, existed |-> r.existed,
                             N |-> N, kwargs |-> kwargs, calls |-> << >>]
                   /\ ret' = ret
    /\ ncalls' = ncalls + 1
    /\ UNCHANGED <<clock, files, cases, corrupted>>

\* the directory numbered from one instead of from enumerate's zero
simulation_path_from_one(path, i) ==
    join(join(path, "simulations"), ToString(i + 1))

\* join(self.path, 'simulations', '{:d}'.format(i))
simulation_path_of(path, i) ==
    join(join(path, "simulations"), ToString(i))

\* one iteration of the loop of lines 115-118, for the row i of enumerate
build_loop(outcome) ==
    /\ pc.op = "build"
    /\ pc.i < Len(sweep.dict.parameters)
    /\ LET i == pc.i
           parameters == sweep.dict.parameters[i + 1]
           simulation_path == simulation_path_of(sweep.dict.path, i)
           r == build_simulation(sweep.cls, parameters, simulation_path,
                                 pc.kwargs, outcome, dirs, cases)
           calls == Append(pc.calls, parameters)
       IN  /\ sweep' = [sweep EXCEPT !.dict.simulation_paths =
                            SetItem(@, i, simulation_path)]
           /\ dirs' = r.dirs
           /\ cases' = r.cases
           /\ IF r.err = "none"
              THEN /\ pc' = [pc EXCEPT !.i = i + 1, !.calls = calls]
                   /\ ret' = ret
              ELSE /\ pc' = Idle
                   /\ ret' = [op |-> "build", err |-> r.err,
                              target |-> pc.target, existed |-> pc.existed,
                              N |-> pc.N, kwargs |-> pc.kwargs,
                              built |-> i, calls |-> calls]
    /\ UNCHANGED <<clock, files, corrupted, ncalls>>

\* lines 120-126, after the loop: dump the sweep, write the manifest, write
\* the submission script
build_finish(installed) ==
    /\ pc.op = "build"
    /\ pc.i = Len(sweep.dict.parameters)
    /\ LET pkl == StateFile(sweep.dict.path)
           F1 == Put(files, pkl, dumps(sweep))
           w == write_paths_file_result(sweep, F1, dirs)
           b == build_submission_script_result(sweep, w.files, dirs, installed)
           e == IF w.err # "none" THEN w.err ELSE b.err
       IN  /\ files' = IF w.err # "none" THEN w.files ELSE b.files
           /\ corrupted' = [f \in DOMAIN corrupted \ {pkl} |-> corrupted[f]]
           /\ ret' = [op |-> "build", err |-> e,
                      target |-> pc.target, existed |-> pc.existed,
                      N |-> pc.N, kwargs |-> pc.kwargs,
                      built |-> pc.i, calls |-> pc.calls]
    /\ pc' = Idle
    /\ UNCHANGED <<clock, dirs, cases, sweep, ncalls>>

\* sweep.write_paths_file() called on its own
write_paths_file ==
    /\ pc.op = "idle"
    /\ ncalls < MaxCalls
    /\ LET w == write_paths_file_result(sweep, files, dirs)
       IN  /\ files' = w.files
           /\ ret' = [op |-> "write_paths_file", err |-> w.err]
    /\ ncalls' = ncalls + 1
    /\ UNCHANGED <<clock, dirs, cases, corrupted, sweep, pc>>

\* sweep.build_submission_script() called on its own
build_submission_script(installed) ==
    /\ pc.op = "idle"
    /\ ncalls < MaxCalls
    /\ LET b == build_submission_script_result(sweep, files, dirs, installed)
       IN  /\ files' = b.files
           /\ ret' = [op |-> "build_submission_script", err |-> b.err]
    /\ ncalls' = ncalls + 1
    /\ UNCHANGED <<clock, dirs, cases, corrupted, sweep, pc>>

\* reading sweep.N
N ==
    /\ pc.op = "idle"
    /\ ncalls < MaxCalls
    /\ ret' = [op |-> "N", res |-> N_result(sweep)]
    /\ ncalls' = ncalls + 1
    /\ UNCHANGED <<clock, dirs, files, cases, corrupted, sweep, pc>>

\* the roots load is tried on: the one the sweep object holds, and one that
\* holds nothing
LoadPaths ==
    (IF HasAttr(sweep.dict, "path") THEN {sweep.dict.path} ELSE {})
    \cup {<<".", "nowhere">>}

\* Sweep.load(path)
load(path) ==
    /\ pc.op = "idle"
    /\ ncalls < MaxCalls
    /\ ret' = [op |-> "load", path |-> path, res |-> load_result(path, files)]
    /\ ncalls' = ncalls + 1
    /\ UNCHANGED <<clock, dirs, files, cases, corrupted, sweep, pc>>

\* the state file f is damaged outside the program: cut short (to nothing, or
\* losing its end), or one stored value overwritten in place
Damage(f, kind) ==
    /\ pc.op = "idle"
    /\ f \in DOMAIN files
    /\ f[Len(f)] = "sweep.pkl"
    /\ f \notin DOMAIN corrupted
    /\ LET c == files[f]
           d == CHOOSE i \in 1..Len(c) : c[i][1] = "delta"
       IN  files' = [files EXCEPT ![f] =
                CASE kind = "emptied"   -> << >>
                  [] kind = "truncated" -> SubSeq(c, 1, Len(c) - 1)
                  [] kind = "altered"   -> [c EXCEPT ![d] = <<"delta", c[d][2] + 1>>]]
    /\ corrupted' = Put(corrupted, f, kind)
    /\ UNCHANGED <<clock, dirs, cases, sweep, pc, ret, ncalls>>

DamageKinds == {"emptied", "truncated", "altered"}

\* the paths a job is started on: the ones the sweep recorded, and one that
\* holds nothing
JobPaths ==
    (IF HasAttr(sweep.dict, "simulation_paths")
     THEN {sweep.dict.simulation_paths[i] : i \in DOMAIN sweep.dict.simulation_paths}
     ELSE {})
    \cup {<<".", "nowhere">>}

\* python run_simulation.py <path>
run_simulation(p) ==
    /\ pc.op = "idle"
    /\ ncalls < MaxCalls
    /\ ret' = [op |-> "run_simulation", path |-> p,
               res |-> run_simulation_result(p, cases)]
    /\ ncalls' = ncalls + 1
    /\ UNCHANGED <<clock, dirs, files, cases, corrupted, sweep, pc>>

Next ==
    \/ Tick
    \/ \E d \in Dirpaths : initialize(d)
    \/ \E d \in Dirpaths, n \in 1..MaxN, kw \in KwargsChoices : build_enter(d, n, kw)
    \/ \E o \in Outcomes : build_loop(o)
    \/ \E installed \in BOOLEAN : build_finish(installed)
    \/ write_paths_file
    \/ \E installed \in BOOLEAN : build_submission_script(installed)
    \/ N
    \/ \E p \in LoadPaths : load(p)
    \/ \E f \in DOMAIN files, k \in DamageKinds : Damage(f, k)
    \/ \E p \in JobPaths : run_simulation(p)

Spec == Init /\ [][Next]_vars

\* ------------------------------------------------------------- build_model alone

\* every 9-vector over 0..MaxVal, for every class
Vectors == [Idx -> 0..MaxVal]

InitModel ==
    /\ clock = 0
    /\ dirs = BaseDirs
    /\ files = << >>
    /\ cases = << >>
    /\ corrupted = << >>
    /\ sweep = new_sweep("LinearSweep", 5)
    /\ \E cls \in Classes, v \in Vectors :
          pc = [op |-> "build_model", cls |-> cls, parameters |-> v]
    /\ ret = [op |-> "none"]
    /\ ncalls = 0

\* cls.build_model(parameters) called on its own
call_build_model ==
    /\ pc.op = "build_model"
    /\ ret' = [op |-> "build_model", cls |-> pc.cls, parameters |-> pc.parameters,
               model |-> build_model(pc.cls, pc.parameters)]
    /\ pc' = Idle
    /\ UNCHANGED <<clock, dirs, files, cases, corrupted, sweep, ncalls>>

NextModel == call_build_model

SpecModel == InitModel /\ [][NextModel]_vars

\* ------------------------------------------------------------- properties

Manifest(root) == abspath(join(join(root, "scripts"), "paths.txt"))

JobScript(root) == abspath(join(join(root, "scripts"), "job_submission.sh"))

SimDir(root, i) == abspath(join(join(root, "simulations"), ToString(i)))

\* the subdirectories of simulations/ under root
SimDirs(root) ==
    {d \in dirs : parent(d) = abspath(join(root, "simulations"))}

\* a build call has ended and it got past initialize
BuildEnded == pc.op = "idle" /\ ret.op = "build" /\ Len(ret.calls) > 0

SampleErrors == {"ModelBuildError", "SaveError"}

\* C1: a build whose N samples were all built and persisted returns normally
\* and leaves exactly the subdirectories 0..N-1 under simulations/ and a
\* paths.txt of N lines, line i naming the directory of sample i
C1_ManifestListsSamples ==
    (BuildEnded /\ ret.built = ret.N) =>
        /\ ret.err = "none"
        /\ SimDirs(ret.target) = {SimDir(ret.target, i) : i \in 0..(ret.N - 1)}
        /\ Manifest(ret.target) \in DOMAIN files
        /\ Len(files[Manifest(ret.target)]) = ret.N
        /\ \A i \in 0..(ret.N - 1) :
              abspath(files[Manifest(ret.target)][i + 1]) = SimDir(ret.target, i)

\* C2: during the loop of build, and after a build that a sample's failure
\* ended, neither paths.txt nor job_submission.sh exists under the sweep root,
\* the failing sample was the last one tried and no later sample has a
\* directory or a case; paths.txt exists after a build only if all N cases
\* were persisted
C2_AllOrNothing ==
    /\ pc.op = "build" =>
          /\ Manifest(pc.target) \notin DOMAIN files
          /\ JobScript(pc.target) \notin DOMAIN files
    /\ (BuildEnded /\ ret.err \in SampleErrors) =>
          /\ Manifest(ret.target) \notin DOMAIN files
          /\ JobScript(ret.target) \notin DOMAIN files
          /\ Len(ret.calls) = ret.built + 1
          /\ \A j \in (ret.built + 1)..(ret.N - 1) : SimDir(ret.target, j) \notin dirs
          /\ \A j \in ret.built..(ret.N - 1) : SimDir(ret.target, j) \notin DOMAIN cases
    /\ (BuildEnded /\ Manifest(ret.target) \in DOMAIN files) =>
          \A i \in 0..(ret.N - 1) : SimDir(ret.target, i) \in DOMAIN cases

\* a build was ended by the failure of its first sample, with a second sample
\* left unbuilt
C2_Witness ==
    /\ BuildEnded
    /\ ret.err = "ModelBuildError"
    /\ ret.built = 0
    /\ ret.N = 2

\* the sweep object is the one whose build populated the root `path`
BuiltAt(path) ==
    /\ HasAttr(sweep.dict, "simulation_paths")
    /\ 0 \in DOMAIN sweep.dict.simulation_paths
    /\ abspath(sweep.dict.simulation_paths[0]) = SimDir(path, 0)

RoundTripFields ==
    {"base", "delta", "parameters", "simulation_kwargs", "simulation_paths"}

\* C3: load on a root whose state file build wrote (and nothing damaged
\* since) returns an object whose base, delta, parameters, simulation_kwargs
\* and simulation_paths equal those of the sweep object that was built
C3_RoundTrip ==
    (/\ pc.op = "idle"
     /\ ret.op = "load"
     /\ StateFile(ret.path) \in DOMAIN files
     /\ StateFile(ret.path) \notin DOMAIN corrupted
     /\ BuiltAt(ret.path)) =>
        /\ ret.res.err = "none"
        /\ ret.res.val.cls = sweep.cls
        /\ \A k \in RoundTripFields :
              /\ k \in DOMAIN ret.res.val.dict
              /\ ret.res.val.dict[k] = sweep.dict[k]

\* a two-sample sweep was built and then loaded from its root
C3_Witness ==
    /\ pc.op = "idle"
    /\ ret.op = "load"
    /\ ret.res.err = "none"
    /\ StateFile(ret.path) \notin DOMAIN corrupted
    /\ BuiltAt(ret.path)
    /\ DOMAIN sweep.dict.simulation_paths = {0, 1}

\* C4: a job that loaded and ran the case at the path it was given saves the
\* results to that same path
C4_SavesToLoadedPath ==
    (ret.op = "run_simulation" /\ ret.res.ran) =>
        /\ ret.res.err = "none"
        /\ ret.res.saved_to = ret.res.loaded_from

\* a call of initialize, or the entry of build, happens in this step
InitializeStep == ncalls' = ncalls + 1 /\ (pc'.op = "build" \/ ret'.op \in {"initialize", "build"})

\* C5 as stated: initialize finding its directory already there fails with a
\* directory-creation error, changes nothing on disk and does not make that
\* directory the root of the sweep
C5_RefusesExisting ==
    [][LET call == IF pc'.op = "build" THEN [target |-> pc'.target, err |-> "none"]
                   ELSE [target |-> ret'.target, err |-> ret'.err]
       IN  (InitializeStep /\ isdir(dirs, call.target)) =>
              /\ call.err = "FileExistsError"
              /\ dirs' = dirs
              /\ files' = files
              /\ ~(/\ HasAttr(sweep'.dict, "path")
                   /\ abspath(sweep'.dict.path) = abspath(call.target))]_vars

\* C5 amended: initialize finding its directory already there takes it as the
\* root of the sweep in every case, removes and overwrites nothing, and fails
\* with FileExistsError exactly when scripts/ or simulations/ is already in
\* it; with scripts/ there nothing on disk changes, and when the call returns
\* the two subdirectories have been added to the existing directory
C5_AdoptsExisting ==
    [][LET call == IF pc'.op = "build" THEN [target |-> pc'.target, err |-> "none"]
                   ELSE [target |-> ret'.target, err |-> ret'.err]
           scripts == abspath(join(call.target, "scripts"))
           simulations == abspath(join(call.target, "simulations"))
       IN  (InitializeStep /\ isdir(dirs, call.target)) =>
              /\ HasAttr(sweep'.dict, "path")
              /\ abspath(sweep'.dict.path) = abspath(call.target)
              /\ dirs \subseteq dirs'
              /\ files' = files
              /\ cases' = cases
              /\ (call.err = "FileExistsError") <=> (scripts \in dirs \/ simulations \in dirs)
              /\ call.err \in {"none", "FileExistsError"}
              /\ scripts \in dirs => dirs' = dirs
              /\ call.err = "none" => dirs' = dirs \cup {scripts, simulations}]_vars

\* initialize was called twice in the same second: the second call found the
\* directory of the first, failed, and the sweep holds it as its root
C5_Witness ==
    /\ ret.op = "initialize"
    /\ ret.existed
    /\ ret.err = "FileExistsError"
    /\ abspath(join(ret.target, "simulations")) \in dirs
    /\ abspath(sweep.dict.path) = abspath(ret.target)

\* C6: the submission script reads the manifest of its own sweep, the
\* paths.txt beside it in scripts/
C6_ScriptReadsManifest ==
    \A f \in DOMAIN files :
        f[Len(f)] = "job_submission.sh" =>
            abspath(files[f].reads_from) = join(parent(f), "paths.txt")

\* a load call happens in this step
LoadStep == ncalls' = ncalls + 1 /\ pc'.op = "idle" /\ ret'.op = "load"

\* C7 as stated: load on a root whose state file is absent or damaged fails
\* with the not-found error
C7_NotFound ==
    [][LET f == StateFile(ret'.path)
       IN  (LoadStep /\ (f \notin DOMAIN files \/ f \in DOMAIN corrupted)) =>
              ret'.res.err = "FileNotFoundError"]_vars

\* C7 amended: load fails with FileNotFoundError when the state file is
\* absent and with EOFError or UnpicklingError when it was cut short; a file
\* with a stored value overwritten in place still loads, as an object other
\* than the one dumped; an undamaged file loads as the object whose dump it
\* is; load changes neither the sweep object nor the disk
C7_LoadOutcomes ==
    [][LET f == StateFile(ret'.path)
           r == ret'.res
       IN  LoadStep =>
              /\ f \notin DOMAIN files => r.err = "FileNotFoundError"
              /\ (f \in DOMAIN corrupted /\ corrupted[f] \in {"emptied", "truncated"}) =>
                    r.err \in {"EOFError", "UnpicklingError"}
              /\ (f \in DOMAIN corrupted /\ corrupted[f] = "altered") =>
                    /\ r.err = "none"
                    /\ BuiltAt(ret'.path) => r.val.dict.delta # sweep.dict.delta
              /\ (f \in DOMAIN files /\ f \notin DOMAIN corrupted) =>
                    /\ r.err = "none"
                    /\ dumps(r.val) = files[f]
              /\ sweep' = sweep
              /\ files' = files
              /\ dirs' = dirs]_vars

\* load was called on a state file that had lost its end
C7_Witness ==
    /\ ret.op = "load"
    /\ StateFile(ret.path) \in DOMAIN corrupted
    /\ corrupted[StateFile(ret.path)] = "truncated"
    /\ ret.res.err = "UnpicklingError"

\* C8: reading N on a sweep whose sample set build has populated returns the
\* number of its rows
C8_NIsSampleCount ==
    (pc.op = "idle" /\ ret.op = "N" /\ HasAttr(sweep.dict, "parameters")) =>
        /\ ret.res.err = "none"
        /\ ret.res.val = Len(sweep.dict.parameters)

\* the components of the vector (counted from one) that are the feedback
\* parameters of each class
FeedbackComponents(cls) ==
    IF cls = "HillSweep" THEN <<6, 7, 8, 9>> ELSE <<7, 8, 9>>

\* C9: build_model adds exactly two feedback conditions, the first
\* unperturbed and the second perturbed, both with the same parameters, taken
\* from the feedback components of the vector
C9_TwoFeedbackConditions ==
    ret.op = "build_model" =>
        LET fb == ret.model.feedback
            comps == FeedbackComponents(ret.cls)
        IN  /\ Len(fb) = 2
            /\ fb[1].perturbed = FALSE
            /\ fb[2].perturbed = TRUE
            /\ fb[1].args = fb[2].args
            /\ fb[1].args = [j \in 1..Len(comps) |-> ret.parameters[comps[j]]]

\* build_model of the Hill sweep was called on a vector whose two feedback
\* strengths differ
C9_Witness ==
    /\ ret.op = "build_model"
    /\ ret.cls = "HillSweep"
    /\ ret.parameters[8] # ret.parameters[9]
    /\ Len(ret.model.feedback) = 2

\* after `tried` samples were handed to build_model, `done` of them persisted
LoopState(tried, done, calls, kwargs) ==
    LET paths == sweep.dict.simulation_paths
        P == sweep.dict.parameters
        sims == join(sweep.dict.path, "simulations")
    IN  /\ tried <= Len(P)
        /\ DOMAIN paths = 0..(tried - 1)
        /\ \A i \in DOMAIN paths : paths[i] = join(sims, ToString(i))
        /\ calls = SubSeq(P, 1, tried)
        /\ \A i \in 0..(done - 1) :
              /\ abspath(paths[i]) \in DOMAIN cases
              /\ cases[abspath(paths[i])] =
                    ConditionSimulation(build_model(sweep.cls, P[i + 1]), kwargs)
        /\ \A c \in DOMAIN cases :
              parent(c) = abspath(sims) =>
                  c \in {abspath(paths[i]) : i \in 0..(done - 1)}

\* C10: at every point of the loop of build, and when build has ended,
\* simulation_paths has the keys 0..k-1 of the k samples tried so far, key i
\* maps to <root>/simulations/<i>, build_model was called once per sample
\* tried, in order, with row i of parameters, and the case in directory i is
\* the one built from row i
C10_SamplesInOrder ==
    /\ pc.op = "build" => LoopState(pc.i, pc.i, pc.calls, pc.kwargs)
    /\ (BuildEnded /\ ret.err \in SampleErrors) =>
          LoopState(ret.built + 1, ret.built, ret.calls, ret.kwargs)
    /\ (BuildEnded /\ ret.err \notin SampleErrors) =>
          LoopState(ret.N, ret.N, ret.calls, ret.kwargs)

\* build is inside its loop, the first of two samples persisted
C10_Witness ==
    /\ pc.op = "build"
    /\ pc.i = 1
    /\ pc.N = 2
    /\ 0 \in DOMAIN sweep.dict.simulation_paths
    /\ abspath(sweep.dict.simulation_paths[0]) \in DOMAIN cases

====
